---- MODULE Spec2Model ----
(***************************************************************************)
(* Model of tools/svg_to_png_playwright.py: the SvgToPngConverter class    *)
(* (engine lifecycle, file enumeration, convert_file, convert_single,      *)
(* convert_batch, print_summary) and main().                               *)
(*                                                                         *)
(* Representation.  A file name is a sequence of pieces; a piece is either *)
(* the dot "." or a non-empty dot-free string ("a", "svg", ...).  The      *)
(* pieces used in source paths start with pairwise different characters,   *)
(* so the piece-wise comparison below agrees with Python's character-wise  *)
(* string comparison.  A path is a sequence of names (its components).     *)
(* A viewBox value is a sequence of one-character strings.  Numbers are    *)
(* non-negative integers; the scale is a rational <<num, den>>.            *)
(***************************************************************************)
EXTENDS Integers, Sequences, FiniteSets, TLC

(* ------------------------------ bounds --------------------------------- *)

\* Largest number of entries the input directory holds.
MaxFiles == 2

\* Longest viewBox value (in characters) enumerated for convert_file.
MaxViewBoxLen == 7

(* ------------------------- program constants --------------------------- *)

DefaultWidth == 750

DefaultHeight == 1000

None == <<"None">>

(* ------------------------------ names ---------------------------------- *)

Dot == "."

\* Code point of a piece's first character (the order Python compares by).
PieceCode(p) ==
    CASE p = "."   -> 46
      [] p = "SVG" -> 83
      [] p = "a"   -> 97
      [] p = "b"   -> 98
      [] p = "d"   -> 100
      [] p = "in"  -> 105
      [] p = "out" -> 111
      [] p = "png" -> 112
      [] p = "png_output" -> 112
      [] p = "svg" -> 115
      [] p = "txt" -> 116

\* str.lower() on a piece.
Lower(p) == IF p = "SVG" THEN "svg" ELSE p

LowerName(n) == [i \in 1..Len(n) |-> Lower(n[i])]

\* str.rfind('.') as a 1-based index, 0 when there is no dot.
LastDot(n) ==
    LET dots == {i \in 1..Len(n) : n[i] = Dot}
    IN  IF dots = {} THEN 0 ELSE CHOOSE i \in dots : \A j \in dots : j <= i

\* PurePath.suffix: the part from the last dot, unless that dot is the first
\* or the last character of the name.
Suffix(n) ==
    LET i == LastDot(n)
    IN  IF 1 < i /\ i < Len(n) THEN SubSeq(n, i, Len(n)) ELSE <<>>

\* PurePath.with_suffix on the final component.
WithSuffixName(n, suffix) ==
    IF Suffix(n) = <<>>
        THEN n \o suffix
        ELSE SubSeq(n, 1, Len(n) - Len(Suffix(n))) \o suffix

WithSuffix(path, suffix) ==
    SubSeq(path, 1, Len(path) - 1) \o <<WithSuffixName(path[Len(path)], suffix)>>

PngSuffix == <<Dot, "png">>

SvgSuffix == <<Dot, "svg">>

\* fnmatch of a name against "*.svg" (case-sensitive, the star may be empty).
MatchesSvgPattern(n) ==
    Len(n) >= 2 /\ SubSeq(n, Len(n) - 1, Len(n)) = SvgSuffix

\* Python's < on str, piece-wise.
RECURSIVE NameLess(_, _)
NameLess(a, b) ==
    IF a = <<>> THEN b # <<>>
    ELSE IF b = <<>> THEN FALSE
    ELSE IF Head(a) = Head(b) THEN NameLess(Tail(a), Tail(b))
    ELSE PieceCode(Head(a)) < PieceCode(Head(b))

\* PurePath.__lt__: the component lists compared lexicographically.
RECURSIVE PathLess(_, _)
PathLess(p, q) ==
    IF p = <<>> THEN q # <<>>
    ELSE IF q = <<>> THEN FALSE
    ELSE IF Head(p) = Head(q) THEN PathLess(Tail(p), Tail(q))
    ELSE NameLess(Head(p), Head(q))

\* sorted() of a set of paths.
RECURSIVE SortedPaths(_)
SortedPaths(S) ==
    IF S = {} THEN <<>>
    ELSE LET m == CHOOSE x \in S : \A y \in S \ {x} : PathLess(x, y)
         IN  <<m>> \o SortedPaths(S \ {m})

(* ------------------ dimension inference (convert_file) ----------------- *)

\* A document is modelled by its viewBox attribute alone: whether the text
\* viewBox= followed by a quote occurs, and the characters up to the next quote.
NoViewBox == [has |-> FALSE, value |-> <<>>]

ViewBox(v) == [has |-> TRUE, value |-> v]

IsSpace(c) == c = " "

IsDigit(c) == c \in {"0", "2", "3", "5"}

DigitValue(c) == CASE c = "0" -> 0 [] c = "2" -> 2 [] c = "3" -> 3 [] c = "5" -> 5

\* str.split(): the maximal runs of non-whitespace characters.
RECURSIVE SplitFrom(_, _, _)
SplitFrom(s, cur, acc) ==
    IF s = <<>> THEN (IF cur = <<>> THEN acc ELSE Append(acc, cur))
    ELSE IF IsSpace(Head(s))
        THEN SplitFrom(Tail(s), <<>>, IF cur = <<>> THEN acc ELSE Append(acc, cur))
    ELSE SplitFrom(Tail(s), Append(cur, Head(s)), acc)

Split(s) == SplitFrom(s, <<>>, <<>>)

\* Whether float(token) returns (over the characters modelled: digits and "x").
IsFloat(tok) == tok # <<>> /\ \A i \in 1..Len(tok) : IsDigit(tok[i])

RECURSIVE FloatValue(_)
FloatValue(tok) ==
    IF tok = <<>> THEN 0
    ELSE 10 * FloatValue(SubSeq(tok, 1, Len(tok) - 1)) + DigitValue(tok[Len(tok)])

\* re.search(r'viewBox=["\']([^"\']+)["\']', svg_content): the group is non-empty.
ViewBoxMatch(markup) == markup.has /\ markup.value # <<>>

\* Lines 132-145: raised is TRUE when float() raises ValueError.
InferDimensions(markup) ==
    LET fallback == [raised |-> FALSE, width |-> DefaultWidth, height |-> DefaultHeight]
    IN  IF ViewBoxMatch(markup)
        THEN LET viewbox_values == Split(markup.value)
             IN  IF Len(viewbox_values) = 4
                 THEN IF ~IsFloat(viewbox_values[3])
                      THEN [raised |-> TRUE, width |-> 0, height |-> 0]
                      ELSE IF ~IsFloat(viewbox_values[4])
                      THEN [raised |-> TRUE, width |-> FloatValue(viewbox_values[3]),
                            height |-> 0]
                      ELSE [raised |-> FALSE,
                            width |-> FloatValue(viewbox_values[3]),
                            height |-> FloatValue(viewbox_values[4])]
                 ELSE fallback
        ELSE fallback

\* A faulty variant: the product rounded half up instead of truncated.
ViewportRounded(width, s) == (2 * width * s[1] + s[2]) \div (2 * s[2])

\* int(width * self.scale) for a non-negative width and scale <<num, den>>.
ViewportSize(width, s) == (width * s[1]) \div s[2]

(* ----------------------------- convert_file ---------------------------- *)

\* The steps of convert_file in program order.
Steps == <<"mkdir", "read", "parse", "set_content", "wait_for_selector",
           "set_viewport_size", "screenshot">>

StepIndex(step) == CHOOSE i \in 1..Len(Steps) : Steps[i] = step

\* Steps where the environment (file system, rendering engine) can raise.
EnvFaults == {"mkdir", "read", "set_content", "wait_for_selector",
              "set_viewport_size", "screenshot"}

\* The steps inside the try block, with mkdir left outside (a faulty variant).
TryBlockAfterMkdir == {Steps[i] : i \in 2..Len(Steps)}

\* The steps inside the try block of convert_file (lines 122-204): all of them.
TryBlock == {Steps[i] : i \in 1..Len(Steps)}

\* The first step that raises, "none" when the job runs to the end.
FailedStep(markup, fault) ==
    IF fault \in {"mkdir", "read"} THEN fault
    ELSE IF InferDimensions(markup).raised THEN "parse"
    ELSE fault

\* What one call of convert_file does: ok, the error message (the failing
\* step stands for str(e)), whether the exception left convert_file, and the
\* dimensions and viewport it computed as far as it got.
ConvertResult(svg_path, png_path, markup, fault, s) ==
    LET step == FailedStep(markup, fault)
        reached == IF step = "none" THEN Len(Steps) + 1 ELSE StepIndex(step)
        dims == InferDimensions(markup)
        sized == reached > StepIndex("parse")
        viewed == reached >= StepIndex("set_viewport_size")
    IN  [src |-> svg_path,
         dest |-> png_path,
         ok |-> step = "none",
         error |-> step,
         escaped |-> step # "none" /\ step \notin TryBlock,
         markup |-> IF reached > StepIndex("read") THEN markup ELSE NoViewBox,
         rendered |-> reached >= StepIndex("set_content"),
         width |-> IF sized THEN dims.width ELSE 0,
         height |-> IF sized THEN dims.height ELSE 0,
         viewport_width |-> IF viewed THEN ViewportSize(dims.width, s) ELSE 0,
         viewport_height |-> IF viewed THEN ViewportSize(dims.height, s) ELSE 0]

\* Before any call of convert_file.
NoResult ==
    [src |-> <<>>, dest |-> <<>>, ok |-> FALSE, error |-> "not called",
     escaped |-> FALSE, markup |-> NoViewBox, rendered |-> FALSE,
     width |-> 0, height |-> 0, viewport_width |-> 0, viewport_height |-> 0]

\* Path.name
BaseName(path) == path[Len(path)]

\* Line 203 / the except clause never touches success_count.
SuccessCountAfter(count, r) == IF r.ok THEN count + 1 ELSE count

\* A faulty variant: the failure counter also counts escaped and successful jobs.
FailCountAlways(count, r) == count + 1

\* Line 207.
FailCountAfter(count, r) == IF ~r.ok /\ ~r.escaped THEN count + 1 ELSE count

\* A faulty variant: the newest failure is put first.
FailedFilesPrepend(failed, r) ==
    IF ~r.ok /\ ~r.escaped THEN <<<<BaseName(r.src), r.error>>>> \o failed ELSE failed

\* Lines 208-209.
FailedFilesAfter(failed, r) ==
    IF ~r.ok /\ ~r.escaped THEN Append(failed, <<BaseName(r.src), r.error>>) ELSE failed

(* ------------------------------- inputs -------------------------------- *)

NameA == <<"a", Dot, "svg">>

NameHidden == <<Dot, "svg">>

NameHiddenSvg == <<Dot, "svg", Dot, "svg">>

NameTxt == <<"a", Dot, "txt">>

NameUpper == <<"a", Dot, "SVG">>

SubDir == <<"d">>

\* The entries an input directory may hold, relative to it.
Candidates == {<<NameA>>, <<NameHidden>>, <<NameHiddenSvg>>, <<NameTxt>>,
               <<SubDir, NameA>>}

\* The names a single-file run may be given.
SingleNames == {NameA, NameUpper, NameTxt}

InputDir == <<<<"in">>>>

\* --scale values, as <<numerator, denominator>>.
Scales == {<<1, 2>>, <<1, 1>>, <<2, 1>>}

ExampleViewBox == ViewBox(<<"0", " ", "0", " ", "2", "0", "0", " ", "3", "0", "0">>)

BadViewBox == ViewBox(<<"3", " ", "3", " ", "x", " ", "5">>)

\* Documents a file of a whole run may hold.
RunMarkups == {NoViewBox, ExampleViewBox, BadViewBox}

ViewBoxChars == {"3", "5", " ", "x"}

\* Documents enumerated for convert_file on its own.
UnitMarkups ==
    {NoViewBox, ExampleViewBox}
        \cup {ViewBox(v) : v \in UNION {[1..n -> ViewBoxChars] : n \in 0..MaxViewBoxLen}}

(* -------------------------------- state -------------------------------- *)

VARIABLES
    pc,             \* position of the run
    input_kind,     \* "file", "dir" or "missing": is_file() / is_dir() of input_path
    input_path,     \* args.input_path
    output_path,    \* args.output_path, or None
    dir_files,      \* files under the input directory, relative to it
    scale,          \* self.scale
    recursive,      \* self.recursive
    playwright,     \* engine resources: "none", "started" or "closed"
    browser,
    page,
    success_count,  \* self.success_count
    fail_count,     \* self.fail_count
    failed_files,   \* self.failed_files
    svg_files,      \* convert_batch's svg_files
    i,              \* iterations of the batch loop completed
    log,            \* history: one record per call of convert_file
    written,        \* history: the files written, with the source of each
    last,           \* the latest call of convert_file in detail
    pending,        \* exception in flight in main: "none", "SystemExit", "Exception"
    summary,        \* what print_summary printed, or None
    exit_code       \* process exit status, -1 while running

vars == <<pc, input_kind, input_path, output_path, dir_files, scale, recursive,
          playwright, browser, page, success_count, fail_count, failed_files,
          svg_files, i, log, written, last, pending, summary, exit_code>>

inputs == <<input_kind, input_path, output_path, dir_files, scale, recursive>>

engine == <<playwright, browser, page>>

counters == <<success_count, fail_count, failed_files, log, written, last>>

\* __init__ (lines 65-72) and the rest of the state before main's with-block.
Fresh ==
    /\ success_count = 0
    /\ fail_count = 0
    /\ failed_files = <<>>
    /\ svg_files = <<>>
    /\ i = 0
    /\ log = <<>>
    /\ written = {}
    /\ last = NoResult
    /\ pending = "none"
    /\ summary = None
    /\ exit_code = -1

Init ==
    /\ pc = "start"
    /\ input_kind \in {"file", "dir", "missing"}
    /\ scale \in Scales
    /\ recursive \in BOOLEAN
    /\ \/ /\ input_kind = "file"
          /\ input_path \in {<<n>> : n \in SingleNames}
          /\ output_path \in {None, <<<<"out">>, <<"a", Dot, "png">>>>}
          /\ dir_files = {}
       \/ /\ input_kind = "dir"
          /\ input_path = InputDir
          /\ output_path \in {None, <<<<"out">>>>}
          /\ dir_files \in {S \in SUBSET Candidates : Cardinality(S) <= MaxFiles}
       \/ /\ input_kind = "missing"
          /\ input_path = InputDir
          /\ output_path \in {None, <<<<"out">>>>}
          /\ dir_files = {}
    /\ playwright = "none"
    /\ browser = "none"
    /\ page = "none"
    /\ Fresh

(* ------------------------------ operations ----------------------------- *)

\* A faulty variant: the matches in descending order.
RECURSIVE ReversedPaths(_)
ReversedPaths(S) ==
    IF S = {} THEN <<>>
    ELSE LET m == CHOOSE x \in S : \A y \in S \ {x} : PathLess(y, x)
         IN  <<m>> \o ReversedPaths(S \ {m})

GetSvgFilesReversed(directory, files, rec) ==
    ReversedPaths({directory \o f : f \in
        {g \in files : MatchesSvgPattern(BaseName(g)) /\ (rec \/ Len(g) = 1)}})

\* get_svg_files: rglob("*.svg") or glob("*.svg"), then sorted().
GetSvgFiles(directory, files, rec) ==
    SortedPaths({directory \o f : f \in
        {g \in files : MatchesSvgPattern(BaseName(g)) /\ (rec \/ Len(g) = 1)}})

\* Path.relative_to
RelativeTo(path, dir) == SubSeq(path, Len(dir) + 1, Len(path))

\* Path.parent
Parent(path) == SubSeq(path, 1, Len(path) - 1)

\* Lines 262-263.
OutputDir(input_dir, out) ==
    IF out = None THEN Parent(input_dir) \o <<<<"png_output">>>> ELSE out

\* Lines 283-284.
BatchDestination(svg_path, input_dir, output_dir) ==
    output_dir \o WithSuffix(RelativeTo(svg_path, input_dir), PngSuffix)

\* Lines 232-233.
SingleDestination(svg_path, out) ==
    IF out = None THEN WithSuffix(svg_path, PngSuffix) ELSE out

\* Line 227.
IsSvgName(path) == LowerName(Suffix(BaseName(path))) = SvgSuffix

\* A faulty variant of the status: sys.exit(1) taken for a normal return.
ExitStatusLenient(exc) == IF exc = "Exception" THEN 1 ELSE 0

\* The interpreter's exit status: 1 for an uncaught exception and for
\* sys.exit(1) (line 372), 0 when main returns.
ExitStatus(exc) == IF exc # "none" THEN 1 ELSE 0

\* The effect of one call of convert_file with result r (lines 203-210).
ConvertFile(r) ==
    /\ success_count' = SuccessCountAfter(success_count, r)
    /\ fail_count' = FailCountAfter(fail_count, r)
    /\ failed_files' = FailedFilesAfter(failed_files, r)
    /\ log' = Append(log, [src |-> r.src, dest |-> r.dest, ok |-> r.ok])
    /\ written' = IF r.ok THEN written \cup {[dest |-> r.dest, src |-> r.src]}
                          ELSE written
    /\ last' = r

\* __enter__ (lines 76-79).  A failure of one of the three calls leaves the
\* with-statement before its body; __exit__ is then not called.
Enter ==
    /\ pc = "start"
    /\ \E fault \in {"none", "start", "launch", "new_page"} :
        /\ playwright' = IF fault = "start" THEN "none" ELSE "started"
        /\ browser' = IF fault \in {"start", "launch"} THEN "none" ELSE "started"
        /\ page' = IF fault = "none" THEN "started" ELSE "none"
        /\ IF fault = "none"
              THEN /\ pc' = "body"
                   /\ UNCHANGED <<pending, exit_code>>
              ELSE /\ pc' = "done"
                   /\ pending' = "Exception"
                   /\ exit_code' = ExitStatus("Exception")
    /\ UNCHANGED <<inputs, counters, svg_files, i, summary>>

\* Lines 364-366: convert_single.
ConvertSingle ==
    /\ pc = "body"
    /\ input_kind = "file"
    /\ IF ~IsSvgName(input_path)
          THEN UNCHANGED <<counters, pending>> /\ pc' = "tail"
          ELSE \E markup \in RunMarkups, fault \in EnvFaults \cup {"none"} :
                LET r == ConvertResult(input_path,
                                       SingleDestination(input_path, output_path),
                                       markup, fault, scale)
                IN  /\ ConvertFile(r)
                    /\ pending' = IF r.escaped THEN "Exception" ELSE "none"
                    /\ pc' = IF r.escaped THEN "exit" ELSE "tail"
    /\ UNCHANGED <<inputs, engine, svg_files, i, summary, exit_code>>

\* Lines 367-369 and 253-278: convert_batch up to the loop.  Creating the
\* output directory (line 266) is outside any try block.
BatchBegin ==
    /\ pc = "body"
    /\ input_kind = "dir"
    /\ \E mkdir_ok \in BOOLEAN :
        IF ~mkdir_ok
           THEN /\ pending' = "Exception"
                /\ pc' = "exit"
                /\ UNCHANGED svg_files
           ELSE /\ svg_files' = GetSvgFiles(input_path, dir_files, recursive)
                /\ pc' = IF svg_files' = <<>> THEN "tail" ELSE "loop"
                /\ UNCHANGED pending
    /\ i' = 0
    /\ UNCHANGED <<inputs, engine, counters, summary, exit_code>>

\* Lines 281-287: one iteration of the loop of convert_batch.
BatchJob ==
    /\ pc = "loop"
    /\ i < Len(svg_files)
    /\ \E markup \in RunMarkups, fault \in EnvFaults \cup {"none"} :
        LET svg_path == svg_files[i + 1]
            png_path == BatchDestination(svg_path, input_path,
                                         OutputDir(input_path, output_path))
            r == ConvertResult(svg_path, png_path, markup, fault, scale)
        IN  /\ ConvertFile(r)
            /\ pending' = IF r.escaped THEN "Exception" ELSE "none"
            /\ pc' = IF r.escaped THEN "exit"
                     ELSE IF i + 1 = Len(svg_files) THEN "tail" ELSE "loop"
    /\ i' = i + 1
    /\ UNCHANGED <<inputs, engine, svg_files, summary, exit_code>>

\* Lines 370-372: neither a file nor a directory.
Missing ==
    /\ pc = "body"
    /\ input_kind = "missing"
    /\ pending' = "SystemExit"
    /\ pc' = "exit"
    /\ UNCHANGED <<inputs, engine, counters, svg_files, i, summary, exit_code>>

\* Lines 374-376 and print_summary.
PrintSummary ==
    /\ pc = "tail"
    /\ summary' = IF success_count > 0 \/ fail_count > 0
                     THEN <<success_count, fail_count, failed_files>>
                     ELSE None
    /\ pc' = "exit"
    /\ UNCHANGED <<inputs, engine, counters, svg_files, i, pending, exit_code>>

\* __exit__ (lines 83-88), then the end of the process.  A close that raises
\* skips the closes after it, and its exception replaces the one in flight.
Exit ==
    /\ pc = "exit"
    /\ \E fault \in {"none", "page.close", "browser.close", "stop"} :
        /\ page' = IF fault = "page.close" THEN page ELSE "closed"
        /\ browser' = IF fault \in {"page.close", "browser.close"}
                         THEN browser ELSE "closed"
        /\ playwright' = IF fault = "none" THEN "closed" ELSE playwright
        /\ pending' = IF fault = "none" THEN pending ELSE "Exception"
        /\ exit_code' = ExitStatus(pending')
    /\ pc' = "done"
    /\ UNCHANGED <<inputs, counters, svg_files, i, summary>>

Next ==
    \/ Enter
    \/ ConvertSingle
    \/ BatchBegin
    \/ BatchJob
    \/ Missing
    \/ PrintSummary
    \/ Exit

Spec == Init /\ [][Next]_vars

(* ------------------------ convert_file on its own ---------------------- *)

UnitSource == <<<<"in">>, NameA>>

UnitDestination == <<<<"out">>, <<"a", Dot, "png">>>>

\* A converter inside the with-block, about to convert one file.
InitConvertFile ==
    /\ pc = "unit"
    /\ input_kind = "file"
    /\ input_path = UnitSource
    /\ output_path = UnitDestination
    /\ dir_files = {}
    /\ scale \in Scales
    /\ recursive = TRUE
    /\ playwright = "started"
    /\ browser = "started"
    /\ page = "started"
    /\ Fresh

\* convert_file (lines 111-210) on any document and any environment fault.
CallConvertFile ==
    /\ pc = "unit"
    /\ \E markup \in UnitMarkups, fault \in EnvFaults \cup {"none"} :
        ConvertFile(ConvertResult(input_path, output_path, markup, fault, scale))
    /\ pc' = "unit_done"
    /\ UNCHANGED <<inputs, engine, svg_files, i, pending, summary, exit_code>>

NextConvertFile == CallConvertFile

SpecConvertFile == InitConvertFile /\ [][NextConvertFile]_vars

(* ------------------------------ properties ----------------------------- *)

Range(seq) == {seq[k] : k \in 1..Len(seq)}

\* The input is a directory and convert_batch has returned normally from its loop.
BatchReturned ==
    /\ input_kind = "dir"
    /\ pc \in {"tail", "exit", "done"}
    /\ svg_files # <<>>
    /\ Len(log) > 0
    /\ ~last.escaped

\* C1: each call of convert_file adds one to exactly one of the two counters
\* (success_count counts the calls that succeeded, fail_count those that
\* failed), so their sum is the number of jobs processed at every point of the
\* loop, and the number of files get_svg_files enumerated once the batch is over.
C1_CountersMatchJobs ==
    /\ success_count = Cardinality({k \in 1..Len(log) : log[k].ok})
    /\ fail_count = Cardinality({k \in 1..Len(log) : ~log[k].ok})
    /\ success_count + fail_count = Len(log)
    /\ input_kind = "dir" => success_count + fail_count = i
    /\ BatchReturned =>
        success_count + fail_count
            = Cardinality({f \in dir_files :
                  MatchesSvgPattern(BaseName(f)) /\ (recursive \/ Len(f) = 1)})

C1_Witness ==
    /\ pc = "done"
    /\ input_kind = "dir"
    /\ success_count = 1
    /\ fail_count = 1

\* C2: a failure at any step of a job is caught in convert_file and recorded
\* as a failed result; no exception leaves the batch loop, and the jobs after
\* the failed one are still processed, so a batch always ends with one result
\* per enumerated file.
C2_FailureIsolated ==
    /\ ~last.escaped
    /\ pc = "loop" => pending = "none"
    /\ (last.error \in Range(Steps)) =>
          /\ ~last.ok
          /\ fail_count > 0
          /\ failed_files[Len(failed_files)] = <<BaseName(last.src), last.error>>
    /\ (input_kind = "dir" /\ pc \in {"tail", "exit", "done"} /\ svg_files # <<>>) =>
          /\ Len(log) = Len(svg_files)
          /\ \A k \in 1..Len(log) : log[k].src = svg_files[k]

C2_Witness ==
    /\ input_kind = "dir"
    /\ Len(log) = 2
    /\ ~log[1].ok
    /\ log[2].ok
    /\ failed_files = <<<<BaseName(log[1].src), "wait_for_selector">>>>

\* C3 (as claimed): when the run has ended, on whatever path, every engine
\* resource that was started has been closed or stopped.
C3_EngineReleased ==
    pc = "done" =>
        /\ playwright # "started"
        /\ browser # "started"
        /\ page # "started"

\* C4 (as claimed): a missing input path gives exit code 1 with no job
\* processed and nothing written; every existing input path gives exit code 0.
C4_ExitStatusAsClaimed ==
    pc = "done" =>
        /\ input_kind = "missing" =>
              /\ exit_code = 1
              /\ success_count = 0 /\ fail_count = 0
              /\ log = <<>> /\ written = {}
        /\ input_kind # "missing" => exit_code = 0

\* C4 (amended): a missing input path gives exit code 1 with no job processed
\* and nothing written; an existing file or directory gives exit code 0,
\* whatever number of jobs failed, unless a fatal error outside the jobs
\* (engine start-up or shutdown, creating the batch output directory) left an
\* exception in flight, and then the exit code is 1.
C4_ExitStatus ==
    pc = "done" =>
        /\ input_kind = "missing" =>
              /\ exit_code = 1
              /\ success_count = 0 /\ fail_count = 0
              /\ log = <<>> /\ written = {}
        /\ (input_kind # "missing" /\ pending = "none") => exit_code = 0
        /\ (input_kind # "missing" /\ pending # "none") => exit_code = 1

C4_Witness ==
    /\ pc = "done"
    /\ input_kind = "dir"
    /\ fail_count = 2
    /\ success_count = 0
    /\ exit_code = 0

\* C5 (as claimed): a single-file run on an existing file whose extension is
\* not .svg converts nothing and exits with a non-zero code.
C5_NonSvgExitsNonZero ==
    (pc = "done" /\ input_kind = "file" /\ ~IsSvgName(input_path)) =>
        /\ log = <<>>
        /\ success_count = 0 /\ fail_count = 0
        /\ written = {}
        /\ exit_code # 0

\* The tokens of a document's viewBox value, <<>> when it has none.
ViewBoxTokens(markup) == IF markup.has THEN Split(markup.value) ELSE <<>>

\* Exactly four tokens, each of them a number.
FourNumbers(tokens) ==
    Len(tokens) = 4 /\ \A k \in 1..4 : IsFloat(tokens[k])

\* C6 (as claimed): once the source has been read, a viewBox of exactly four
\* numeric tokens gives width and height from tokens 3 and 4; any other
\* document gets 750 x 1000 and the job goes on to rendering.
C6_DimensionsAsClaimed ==
    (pc = "unit_done" /\ last.error \notin {"mkdir", "read"}) =>
        LET tokens == ViewBoxTokens(last.markup)
        IN  IF FourNumbers(tokens)
            THEN /\ last.rendered
                 /\ last.width = FloatValue(tokens[3])
                 /\ last.height = FloatValue(tokens[4])
            ELSE /\ last.rendered
                 /\ last.width = DefaultWidth
                 /\ last.height = DefaultHeight

\* Python's round() of n / d for n >= 0, d > 0: to nearest, ties to even.
RoundHalfEven(n, d) ==
    LET q == n \div d
        r == n % d
    IN  IF 2 * r < d THEN q
        ELSE IF 2 * r > d THEN q + 1
        ELSE IF q % 2 = 0 THEN q ELSE q + 1

C8_SequentialInOrder ==
    input_kind = "dir" =>
        /\ \A j, k \in 1..Len(svg_files) :
              j < k => PathLess(svg_files[j], svg_files[k])
        /\ Len(log) = i
        /\ i <= Len(svg_files)
        /\ \A k \in 1..Len(log) : log[k].src = svg_files[k]
        /\ \A j, k \in 1..Len(log) : log[j].src = log[k].src => j = k
        /\ Range(svg_files) =
              {input_path \o f : f \in {g \in dir_files :
                  MatchesSvgPattern(BaseName(g)) /\ (recursive \/ Len(g) = 1)}}
              \/ pc \in {"start", "body"} \/ svg_files = <<>>
        /\ BatchReturned => Len(log) = Len(svg_files)

C8_Witness ==
    /\ pc = "done"
    /\ input_kind = "dir"
    /\ Len(svg_files) = 2
    /\ Len(log) = 2
    /\ ~log[1].ok
    /\ log[1].src # log[2].src
    /\ PathLess(log[1].src, log[2].src)

\* C9 (as claimed): the batch layout is one-to-one: two different enumerated
\* sources never get the same destination (the output root joined with the
\* relative path, its suffix replaced by .png), and no job writes over the
\* output of another.
C9_DestinationsOneToOne ==
    input_kind = "dir" =>
        /\ \A j, k \in 1..Len(log) :
              log[j].src # log[k].src => log[j].dest # log[k].dest
        /\ \A w1, w2 \in written : w1.dest = w2.dest => w1.src = w2.src

\* The base names of the failed jobs, in the order the jobs were processed.
RECURSIVE FailedNames(_)
FailedNames(history) ==
    IF history = <<>> THEN <<>>
    ELSE LET rest == FailedNames(SubSeq(history, 1, Len(history) - 1))
             job == history[Len(history)]
         IN  IF job.ok THEN rest ELSE Append(rest, BaseName(job.src))

EntryNames == [k \in 1..Len(failed_files) |-> failed_files[k][1]]

\* C10 (as claimed): failed_files has fail_count entries, in processing
\* order, each naming a failed job, and no successful job's file name is in it.
C10_FailuresAsClaimed ==
    /\ Len(failed_files) = fail_count
    /\ EntryNames = FailedNames(log)
    /\ \A k \in 1..Len(log) : log[k].ok => BaseName(log[k].src) \notin Range(EntryNames)

\* C10 (amended): failed_files has fail_count entries, which are, in
\* processing order, the base names of exactly the jobs that failed (a
\* successful job adds no entry).  An entry holds the base name only, so the
\* name of a successful job is in the list only when a failed job in another
\* directory has the same base name.  The summary prints this list.
C10_FailuresMatchCounters ==
    /\ Len(failed_files) = fail_count
    /\ EntryNames = FailedNames(log)
    /\ \A k \in 1..Len(log) :
          (log[k].ok /\ BaseName(log[k].src) \in Range(EntryNames)) =>
              \E j \in 1..Len(log) :
                  /\ ~log[j].ok
                  /\ log[j].src # log[k].src
                  /\ BaseName(log[j].src) = BaseName(log[k].src)
    /\ summary # None => summary = <<success_count, fail_count, failed_files>>

C10_Witness ==
    /\ pc = "done"
    /\ Len(log) = 2
    /\ log[1].ok
    /\ ~log[2].ok
    /\ success_count = 1
    /\ fail_count = 1
    /\ failed_files = <<<<BaseName(log[2].src), "read">>>>
    /\ BaseName(log[1].src) # BaseName(log[2].src)

====
